---------------------------- MODULE Spec2Model ----------------------------
(***************************************************************************)
(* Model of the medinote STT pipeline.                                     *)
(*                                                                         *)
(*  - OpenAIWhisperSTT (src/models/stt/engine/openai_engine.py): the size  *)
(*    gate of transcribe, the single call, and the chunked path: split,    *)
(*    a ThreadPoolExecutor of max_workers threads running                  *)
(*    _process_single_chunk, the as_completed loop and the final join.     *)
(*  - The local engines (src/core/engine/hf_engine.py, src/stt_engine.py): *)
(*    the quality check and the calls of the transcriber.                  *)
(*                                                                         *)
(* Times are in milliseconds, RMS energy in thousandths.                   *)
(***************************************************************************)
EXTENDS Integers, Sequences, FiniteSets, TLC

VARIABLES
    pc,          \* position of the thread running OpenAIWhisperSTT.transcribe
    fileSize,    \* os.path.getsize(audio_path)
    audioLen,    \* len(audio) in ms, as pydub reports it
    mode,        \* "none", "single" or "chunked": the branch transcribe took
    chunks,      \* the list built by the split loop: <<[start, end], ...>>
    fut,         \* index -> state of the future submitted for that chunk
    consumed,    \* indices the as_completed loop has already yielded
    results,     \* the dict results of _transcribe_chunked
    raised,      \* index of the future whose exception is pending in the main
                 \* thread, -1 when there is none
    tmp,         \* indices whose temporary file exists on disk
    attempts,    \* index -> number of times _process_single_chunk started
    calls,       \* index -> number of backend calls made for that chunk
    singleCalls, \* number of backend calls made by _transcribe_single
    vocab,       \* the texts the backend can answer with in this run
    inversion,   \* history: as_completed yielded some chunk after a later one
    ret          \* what the caller of transcribe receives

openaiVars == <<pc, fileSize, audioLen, mode, chunks, fut, consumed, results,
                raised, tmp, attempts, calls, singleCalls, vocab, inversion,
                ret>>

VARIABLES
    lEngine,     \* "hf", "simple" or "diar": which local transcribe runs
    lPc,         \* position inside that transcribe
    lDur,        \* measured duration of the clip, ms
    lRms,        \* RMS energy of the clip, thousandths
    lCalls,      \* number of calls of self.transcriber
    lDiarCalls,  \* number of calls of self.diarization_pipeline
    lFirstErr,   \* the error the first transcriber call raised, or "none"
    lLoad,       \* "off", "loaded", "failed" or "none": the diarization model
    lLog,        \* what the quality checks printed
    lDiarized,   \* "none", "ok" or "raised": how the diarization call ended
    lTurns,      \* the turns collected from the diarization
    lSegs,       \* speaker_segments as the alignment loop receives it
    lChunks,     \* the chunks the alignment loop went over
    lRet,        \* what the caller of the local transcribe receives
    lReadable,   \* soundfile and librosa can read the input file
    lSaveResult, \* the save_result argument of MedicalSTT.transcribe
    lSaved       \* _save_result wrote the result to the output directory

localVars == <<lEngine, lPc, lDur, lRms, lCalls, lDiarCalls, lFirstErr, lLoad,
               lLog, lDiarized, lTurns, lSegs, lChunks, lRet, lReadable,
               lSaveResult, lSaved>>

VARIABLES
    fSegs,       \* the list of turns handed to _find_speaker
    fArgs,       \* the span of the latest call, or <<>> before the first
    fSpeaker,    \* what the latest call returned
    fFirst,      \* per span, what the first call with it returned
    fRepeat      \* the latest call repeated the span of an earlier call

findVars == <<fSegs, fArgs, fSpeaker, fFirst, fRepeat>>

VARIABLES
    task,        \* one request to /stt/process and its background task
    db,          \* the stt_job table, the clock and the latest crud call
    cfg          \* the latest STTConfig.get_model call and the engines built

serviceVars == <<task, db, cfg>>

vars == <<openaiVars, localVars, findVars, serviceVars>>

-----------------------------------------------------------------------------
(* Program constants *)

MAX_FILE_SIZE == 25 * 1024 * 1024
MAX_UPLOAD_SIZE == 100 * 1024 * 1024
CHUNK_LENGTH_MS == 10 * 60 * 1000
max_workers == 5

(* Bounds of the model *)

MaxChunks == 3
PoolChunks == 6

Min(a, b) == IF a <= b THEN a ELSE b

\* Texts are sequences of characters.
Texts == { <<>>, <<"a">>, <<"b", "c">> }
PoolTexts == { <<"a">> }

FileSizes == { MAX_FILE_SIZE - 1, MAX_FILE_SIZE, MAX_FILE_SIZE + 1,
               MAX_UPLOAD_SIZE, MAX_UPLOAD_SIZE + 1 }

PoolSizes == { MAX_FILE_SIZE, MAX_FILE_SIZE + 1, MAX_UPLOAD_SIZE + 1 }

AudioLengths ==
    { k * CHUNK_LENGTH_MS + d :
        k \in 0 .. (MaxChunks - 1), d \in {0, 1, CHUNK_LENGTH_MS \div 2} }
    \cup { MaxChunks * CHUNK_LENGTH_MS }

EmptyMap == [k \in {} |-> <<>>]
NoRet == [kind |-> "none", text |-> <<>>, err |-> "", audio_length |-> -1]

-----------------------------------------------------------------------------
(* Pure helpers of the OpenAI engine *)

\* Mutant: the ceiling itself is rejected too.
RejectedAtCeiling(size) == size >= MAX_UPLOAD_SIZE

\* transcribe, line 50: the hard ceiling.
Rejected(size) == size > MAX_UPLOAD_SIZE

\* Mutant: a clip of exactly the threshold is split.
FitsSingleStrict(size) == size < MAX_FILE_SIZE

\* transcribe, line 53: the soft threshold.
FitsSingle(size) == size <= MAX_FILE_SIZE

\* range(0, n, step) as a sequence.
RECURSIVE RangeFrom(_, _, _)
RangeFrom(i, n, step) ==
    IF i >= n THEN <<>> ELSE <<i>> \o RangeFrom(i + step, n, step)

\* Mutant: the end of the slice is not clamped.
SliceUnclamped(len, a, b) == [start |-> a, end |-> b]

\* audio[a:b] of pydub (line 158): both ends are clamped to the length of the
\* audio.
Slice(len, a, b) == [start |-> Min(a, len), end |-> Min(b, len)]

\* _transcribe_chunked, lines 156-159.
SplitChunks(len) ==
    LET starts == RangeFrom(0, len, CHUNK_LENGTH_MS)
    IN  [k \in 1 .. Len(starts) |->
            Slice(len, starts[k], starts[k] + CHUNK_LENGTH_MS)]

\* " ".join(list)
RECURSIVE Join(_)
Join(list) ==
    IF Len(list) = 0 THEN <<>>
    ELSE IF Len(list) = 1 THEN list[1]
    ELSE list[1] \o <<" ">> \o Join(Tail(list))

N == Len(chunks)
Indices == 0 .. (N - 1)

Queued == [st |-> "queued", text |-> <<>>, err |-> ""]
Running(st) == [st |-> st, text |-> <<>>, err |-> ""]
DoneOk(t) == [st |-> "ok", text |-> t, err |-> ""]
DoneErr(e) == [st |-> "error", text |-> <<>>, err |-> e]

IsDone(i) == fut[i].st \in {"ok", "error"}
Busy == { i \in Indices : fut[i].st \in {"export", "call"} }

\* Mutant: one thread per submitted item.
ThreadPerItem == TRUE

\* ThreadPoolExecutor(max_workers=5), line 167: a queued item is taken only
\* by a free worker thread.
WorkerAvailable == Cardinality(Busy) < max_workers

\* Mutant: the items still queued are dropped once the loop has raised.
CancelledOnError == raised # -1

\* Leaving the with block (line 167) is shutdown(wait=True) without
\* cancel_futures: queued items still run after the main thread has seen an
\* exception.
PendingCancelled == FALSE

\* Mutant: the texts are kept in the order the futures complete.
StoreByArrival(r, idx, text) ==
    [k \in (DOMAIN r) \cup {Cardinality(DOMAIN r)} |->
        IF k = Cardinality(DOMAIN r) THEN text ELSE r[k]]

\* Mutant: the text is stored one key past the chunk's index.
StoreShifted(r, idx, text) ==
    [k \in (DOMAIN r) \cup {idx + 1} |-> IF k = idx + 1 THEN text ELSE r[k]]

\* results[idx] = text, line 172.
StoreResult(r, idx, text) ==
    [k \in (DOMAIN r) \cup {idx} |-> IF k = idx THEN text ELSE r[k]]

\* Mutant: the file is removed on the successful path only.
UnlinkOnSuccess(files, i, failed) == IF failed THEN files ELSE files \ {i}

\* The finally clause of _process_single_chunk, lines 130-135.
Unlink(files, i, failed) == files \ {i}

-----------------------------------------------------------------------------
(* OpenAIWhisperSTT.transcribe *)

InitOpenAIWith(sizes, lengths, texts) ==
    /\ pc = "received"
    /\ fileSize \in sizes
    /\ audioLen \in lengths
    /\ vocab = texts
    /\ inversion = FALSE
    /\ mode = "none"
    /\ chunks = <<>>
    /\ fut = EmptyMap
    /\ consumed = {}
    /\ results = EmptyMap
    /\ raised = -1
    /\ tmp = {}
    /\ attempts = EmptyMap
    /\ calls = EmptyMap
    /\ singleCalls = 0
    /\ ret = NoRet

\* lines 47-51: the size is read and the hard ceiling is applied.
Reject ==
    /\ pc = "received"
    /\ Rejected(fileSize)
    /\ pc' = "failed"
    /\ ret' = [NoRet EXCEPT !.kind = "error", !.err = "size_limit"]
    /\ UNCHANGED <<localVars, findVars, serviceVars, inversion, fileSize, audioLen, mode, chunks, fut, consumed, results,
                   raised, tmp, attempts, calls, singleCalls, vocab>>

\* lines 53-54 and 61-76: the single path opens the file and calls the API.
SingleStart ==
    /\ pc = "received"
    /\ ~Rejected(fileSize)
    /\ FitsSingle(fileSize)
    /\ pc' = "single_call"
    /\ mode' = "single"
    /\ singleCalls' = singleCalls + 1
    /\ UNCHANGED <<localVars, findVars, serviceVars, inversion, fileSize, audioLen, chunks, fut, consumed, results, raised,
                   tmp, attempts, calls, vocab, ret>>

\* lines 71-94: the API answers, and the result is returned.
SingleReturn ==
    /\ pc = "single_call"
    /\ \E t \in vocab :
          ret' = [kind |-> "ok", text |-> t, err |-> "", audio_length |-> audioLen]
    /\ pc' = "done"
    /\ UNCHANGED <<localVars, findVars, serviceVars, inversion, fileSize, audioLen, mode, chunks, fut, consumed, results,
                   raised, tmp, attempts, calls, singleCalls, vocab>>

\* lines 71-76: the API call raises and the exception leaves transcribe.
SingleRaise ==
    /\ pc = "single_call"
    /\ ret' = [NoRet EXCEPT !.kind = "error", !.err = "api_error"]
    /\ pc' = "failed"
    /\ UNCHANGED <<localVars, findVars, serviceVars, inversion, fileSize, audioLen, mode, chunks, fut, consumed, results,
                   raised, tmp, attempts, calls, singleCalls, vocab>>

\* lines 55-57 and 142-168: the audio is loaded and cut, and every chunk is
\* submitted to the executor.
SplitAndSubmit ==
    /\ pc = "received"
    /\ ~Rejected(fileSize)
    /\ ~FitsSingle(fileSize)
    /\ mode' = "chunked"
    /\ chunks' = SplitChunks(audioLen)
    /\ fut' = [i \in 0 .. (Len(chunks') - 1) |-> Queued]
    /\ attempts' = [i \in 0 .. (Len(chunks') - 1) |-> 0]
    /\ calls' = [i \in 0 .. (Len(chunks') - 1) |-> 0]
    /\ pc' = "as_completed"
    /\ UNCHANGED <<localVars, findVars, serviceVars, inversion, fileSize, audioLen, consumed, results, raised, tmp,
                   singleCalls, vocab, ret>>

\* A worker thread takes the next item of the queue: lines 98-103, the
\* temporary file is created.
StartChunk(i) ==
    /\ mode = "chunked"
    /\ fut[i].st = "queued"
    /\ \A j \in Indices : j < i => fut[j].st # "queued"
    /\ WorkerAvailable
    /\ ~PendingCancelled
    /\ fut' = [fut EXCEPT ![i] = Running("export")]
    /\ attempts' = [attempts EXCEPT ![i] = @ + 1]
    /\ tmp' = tmp \cup {i}
    /\ UNCHANGED <<localVars, findVars, serviceVars, inversion, pc, fileSize, audioLen, mode, chunks, consumed, results,
                   raised, calls, singleCalls, vocab, ret>>

\* lines 107-122: the export succeeded and the API call is made.
ExportOk(i) ==
    /\ mode = "chunked"
    /\ fut[i].st = "export"
    /\ fut' = [fut EXCEPT ![i] = Running("call")]
    /\ calls' = [calls EXCEPT ![i] = @ + 1]
    /\ UNCHANGED <<localVars, findVars, serviceVars, inversion, pc, fileSize, audioLen, mode, chunks, consumed, results,
                   raised, tmp, attempts, singleCalls, vocab, ret>>

\* line 107 raises: the finally clause runs and the future holds the error.
ExportFail(i) ==
    /\ mode = "chunked"
    /\ fut[i].st = "export"
    /\ fut' = [fut EXCEPT ![i] = DoneErr("export_error")]
    /\ tmp' = Unlink(tmp, i, TRUE)
    /\ UNCHANGED <<localVars, findVars, serviceVars, inversion, pc, fileSize, audioLen, mode, chunks, consumed, results,
                   raised, attempts, calls, singleCalls, vocab, ret>>

\* lines 117-135: the API answers, the file is removed, (idx, text) returned.
CallOk(i) ==
    /\ mode = "chunked"
    /\ fut[i].st = "call"
    /\ \E t \in vocab : fut' = [fut EXCEPT ![i] = DoneOk(t)]
    /\ tmp' = Unlink(tmp, i, FALSE)
    /\ UNCHANGED <<localVars, findVars, serviceVars, inversion, pc, fileSize, audioLen, mode, chunks, consumed, results,
                   raised, attempts, calls, singleCalls, vocab, ret>>

\* lines 117-135: the API call raises, the file is removed.
CallFail(i) ==
    /\ mode = "chunked"
    /\ fut[i].st = "call"
    /\ fut' = [fut EXCEPT ![i] = DoneErr("api_error")]
    /\ tmp' = Unlink(tmp, i, TRUE)
    /\ UNCHANGED <<localVars, findVars, serviceVars, inversion, pc, fileSize, audioLen, mode, chunks, consumed, results,
                   raised, attempts, calls, singleCalls, vocab, ret>>

\* lines 170-172: as_completed yields a finished future that returned.
ConsumeOk(i) ==
    /\ pc = "as_completed"
    /\ i \notin consumed
    /\ fut[i].st = "ok"
    /\ consumed' = consumed \cup {i}
    /\ results' = StoreResult(results, i, fut[i].text)
    /\ inversion' = (inversion \/ \E j \in consumed : j > i)
    /\ UNCHANGED <<localVars, findVars, serviceVars, pc, fileSize, audioLen, mode, chunks, fut, raised, tmp,
                   attempts, calls, singleCalls, vocab, ret>>

\* line 171: future.result() re-raises the worker's exception; the loop ends.
ConsumeErr(i) ==
    /\ pc = "as_completed"
    /\ i \notin consumed
    /\ fut[i].st = "error"
    /\ consumed' = consumed \cup {i}
    /\ raised' = i
    /\ pc' = "shutdown"
    /\ inversion' = (inversion \/ \E j \in consumed : j > i)
    /\ UNCHANGED <<localVars, findVars, serviceVars, fileSize, audioLen, mode, chunks, fut, results, tmp,
                   attempts, calls, singleCalls, vocab, ret>>

\* The loop is over (every future was yielded): the with block is left.
LoopEnd ==
    /\ pc = "as_completed"
    /\ consumed = Indices
    /\ pc' = "shutdown"
    /\ UNCHANGED <<localVars, findVars, serviceVars, inversion, fileSize, audioLen, mode, chunks, fut, consumed, results,
                   raised, tmp, attempts, calls, singleCalls, vocab, ret>>

\* The texts of r for the indices below n that have one, in index order.
RECURSIVE PresentTexts(_, _)
PresentTexts(r, n) ==
    IF n = 0 THEN <<>>
    ELSE PresentTexts(r, n - 1) \o
         (IF (n - 1) \in DOMAIN r THEN <<r[n - 1]>> ELSE <<>>)

\* An exit that drops the pending exception and joins the texts it has.
ExitJoinAvailable ==
    /\ pc = "shutdown"
    /\ raised # -1
    /\ \A i \in Indices : IsDone(i) \/ (fut[i].st = "queued" /\ PendingCancelled)
    /\ pc' = "done"
    /\ ret' = [kind |-> "ok", text |-> Join(PresentTexts(results, N)), err |-> "",
               audio_length |-> audioLen]
    /\ UNCHANGED <<localVars, findVars, serviceVars, inversion, fileSize, audioLen, mode, chunks, fut, consumed, results,
                   raised, tmp, attempts, calls, singleCalls, vocab>>

\* executor.__exit__ waits for the worker threads, then the pending exception
\* leaves _transcribe_chunked.
ExitRaise ==
    /\ pc = "shutdown"
    /\ raised # -1
    /\ \A i \in Indices : IsDone(i) \/ (fut[i].st = "queued" /\ PendingCancelled)
    /\ pc' = "failed"
    /\ ret' = [NoRet EXCEPT !.kind = "error", !.err = fut[raised].err]
    /\ UNCHANGED <<localVars, findVars, serviceVars, inversion, fileSize, audioLen, mode, chunks, fut, consumed, results,
                   raised, tmp, attempts, calls, singleCalls, vocab>>

\* lines 175-187: the texts are read in index order (a missing key is a
\* KeyError) and joined.
ExitJoin ==
    /\ pc = "shutdown"
    /\ raised = -1
    /\ \A i \in Indices : IsDone(i)
    /\ IF Indices \subseteq DOMAIN results
       THEN LET all_texts == [k \in 1 .. N |-> results[k - 1]]
            IN  /\ ret' = [kind |-> "ok", text |-> Join(all_texts), err |-> "",
                           audio_length |-> audioLen]
                /\ pc' = "done"
       ELSE /\ ret' = [NoRet EXCEPT !.kind = "error", !.err = "key_error"]
            /\ pc' = "failed"
    /\ UNCHANGED <<localVars, findVars, serviceVars, inversion, fileSize, audioLen, mode, chunks, fut, consumed,
                   results, raised, tmp, attempts, calls, singleCalls, vocab>>

OpenAINext ==
    \/ Reject
    \/ SingleStart
    \/ SingleReturn
    \/ SingleRaise
    \/ SplitAndSubmit
    \/ \E i \in Indices : StartChunk(i)
    \/ \E i \in Indices : ExportOk(i)
    \/ \E i \in Indices : ExportFail(i)
    \/ \E i \in Indices : CallOk(i)
    \/ \E i \in Indices : CallFail(i)
    \/ \E i \in Indices : ConsumeOk(i)
    \/ \E i \in Indices : ConsumeErr(i)
    \/ LoopEnd
    \/ ExitRaise
    \/ ExitJoin

-----------------------------------------------------------------------------
(* The local engines: HFWhisperSTT.transcribe, MedicalSTT._transcribe_simple *)
(* and MedicalSTT._transcribe_with_diarization                              *)

MIN_AUDIO_LENGTH == 1000
MIN_AUDIO_DURATION == 1000
SILENCE_RMS_THRESHOLD == 10

LocalEngines == {"hf", "simple", "diar"}
LocalDurations == {0, MIN_AUDIO_LENGTH - 1, MIN_AUDIO_LENGTH, 5 * MIN_AUDIO_LENGTH}
LocalRms == {2, SILENCE_RMS_THRESHOLD - 1, SILENCE_RMS_THRESHOLD, 50}
NoLocalRet == [kind |-> "none", text |-> <<>>, err |-> "", keys |-> {},
               duration |-> 0, segments |-> <<>>, num_speakers |-> 0]

\* The two checks of hf_engine.py lines 68-94 and stt_engine.py lines 106-134:
\* the duration first, then the RMS energy.
QualityVerdict(dur, rms, minimum) ==
    IF dur < minimum THEN "too_short"
    ELSE IF rms < SILENCE_RMS_THRESHOLD THEN "too_quiet"
    ELSE "proceed"

\* What the checks print: the duration with "too short"; the RMS energy as
\* soon as it is computed, then "too quiet" when it is below the threshold.
GateLog(verdict) ==
    IF verdict = "too_short" THEN {"too_short", "duration"}
    ELSE IF verdict = "too_quiet" THEN {"rms", "too_quiet"}
    ELSE {"rms"}

\* The keys of the dictionaries the transcribe methods return.
HfGateKeys == {"text", "audio_file", "model", "processing_time",
               "audio_length", "rtf"}
SimpleGateKeys == {"text", "audio_file", "model", "processing_time",
                   "audio_duration", "rtf", "num_speakers"}
HfKeys == {"text", "audio_file", "model", "processing_time", "audio_length",
           "timestamp", "segments"}
SimpleKeys == {"text", "audio_file", "model", "processing_time",
               "audio_duration", "timestamp"}
DiarKeys == {"text", "segments", "num_speakers", "audio_file", "model",
             "processing_time", "audio_duration", "timestamp"}

\* The empty result both checks return: the same dictionary for either
\* verdict, with the measured duration and no transcript.
GateReturn(keys, dur) ==
    [kind |-> "ok", text |-> <<>>, err |-> "", keys |-> keys,
     duration |-> dur, segments |-> <<>>, num_speakers |-> 0]

\* An exception leaving transcribe.
LocalError(msg) ==
    [kind |-> "error", text |-> <<>>, err |-> msg, keys |-> {},
     duration |-> 0, segments |-> <<>>, num_speakers |-> 0]

\* The error messages the except clauses of stt_engine.py look at.
TranscriberErrors == {"ffmpeg", "torchcodec", "other"}

\* Mutant: every error of the first call is answered with a second call.
RetryAlways(msg) == TRUE

\* stt_engine.py lines 157-158 and 256-257.
Retryable(msg) == msg \in {"ffmpeg", "torchcodec", "libtorchcodec"}

-----------------------------------------------------------------------------
(* Speaker turns, transcribed chunks and their alignment                     *)
(* (MedicalSTT._transcribe_with_diarization and MedicalSTT._find_speaker).   *)
(* Times are in ms.                                                          *)

MaxTurns == 2
MaxSpans == 2

\* None in a chunk's timestamp pair.
NoneStamp == -1

Speakers == {"SPEAKER_00", "SPEAKER_01"}
TurnIntervals == {<<0, 2500>>, <<2500, 5000>>, <<4500, 5000>>}
Stamps == {0, 5000}
ChunkTexts == {<<" ">>, <<" ", "a">>}

SeqsUpTo(S, n) == UNION { [1..k -> S] : k \in 0..n }

\* The turns a diarization of a clip of the given duration can contain.
Turns(dur) ==
    { [speaker |-> s, start |-> iv[1], end |-> iv[2]] :
        s \in Speakers, iv \in { i \in TurnIntervals : i[2] <= dur } }

\* itertracks yields the tracks sorted by start time, then by end time.
Chronological(segs) ==
    \A k \in 1..(Len(segs) - 1) :
        \/ segs[k].start < segs[k + 1].start
        \/ /\ segs[k].start = segs[k + 1].start
           /\ segs[k].end <= segs[k + 1].end

TurnLists(dur) ==
    { l \in SeqsUpTo(Turns(dur), MaxTurns) : Chronological(l) }

\* The timestamp pairs the transcriber can give a chunk of such a clip:
\* either side may be None, and what is there lies inside the clip.
StampPairs(dur) ==
    { p \in (Stamps \cup {NoneStamp}) \X (Stamps \cup {NoneStamp}) :
        /\ p[1] <= dur
        /\ p[2] <= dur
        /\ p[1] # p[2]
        /\ (p[1] # NoneStamp /\ p[2] # NoneStamp) => p[1] < p[2] }

Chunks(dur) ==
    { [text |-> t, timestamp |-> p] : t \in ChunkTexts, p \in StampPairs(dur) }

Present(c) == { c.timestamp[k] : k \in 1..2 } \ {NoneStamp}

\* The transcriber reports its chunks in the order of the audio.
Sequential(cs) ==
    \A j \in 1..Len(cs) : \A k \in 1..Len(cs) :
        j < k => \A a \in Present(cs[j]) : \A b \in Present(cs[k]) : a <= b

ChunkLists(dur) ==
    { l \in SeqsUpTo(Chunks(dur), MaxSpans) : Sequential(l) }

RECURSIVE ConcatTexts(_)
ConcatTexts(cs) ==
    IF cs = <<>> THEN <<>> ELSE Head(cs).text \o ConcatTexts(Tail(cs))

\* What self.transcriber returns: the whole text, and the chunks unless the
\* "chunks" key is absent.
Transcriptions(dur) ==
    { [text |-> ConcatTexts(cs), has_chunks |-> TRUE, chunks |-> cs] :
        cs \in ChunkLists(dur) }
    \cup
    { [text |-> t, has_chunks |-> FALSE, chunks |-> <<>>] :
        t \in ChunkTexts \cup {<<>>} }

\* stt_engine.py lines 270-276.
TranscriptionChunks(tr) ==
    IF tr.has_chunks THEN tr.chunks
    ELSE << [text |-> tr.text, timestamp |-> <<0, NoneStamp>>] >>

\* str.strip() on a text of characters.
RECURSIVE LStrip(_)
LStrip(t) ==
    IF t = <<>> THEN t
    ELSE IF Head(t) = " " THEN LStrip(Tail(t)) ELSE t

RECURSIVE RStrip(_)
RStrip(t) ==
    IF t = <<>> THEN t
    ELSE IF t[Len(t)] = " " THEN RStrip(SubSeq(t, 1, Len(t) - 1)) ELSE t

Strip(t) == RStrip(LStrip(t))

\* `ts[0] if ts[0] else 0.0`: None and 0.0 are both false.
ChunkStart(c) == IF c.timestamp[1] > 0 THEN c.timestamp[1] ELSE 0

\* `ts[1] if ts[1] else chunk_start + 1.0`.
ChunkEnd(c) == IF c.timestamp[2] > 0 THEN c.timestamp[2] ELSE ChunkStart(c) + 1000

\* round(x, 2) of a time in seconds, on a time in ms.
Round2(ms) == ((ms + 5) \div 10) * 10

\* The fallback list of stt_engine.py lines 222-226 and 228-232.
DefaultSegments ==
    << [speaker |-> "SPEAKER_00", start |-> 0, end |-> 999999000] >>

\* A lookup that leaves the end of a turn out of its interval.
FindSpeakerHalfOpen(chunk_start, chunk_end, speaker_segments) ==
    LET mid2 == chunk_start + chunk_end
        hits == { k \in 1..Len(speaker_segments) :
                    /\ 2 * speaker_segments[k].start <= mid2
                    /\ mid2 < 2 * speaker_segments[k].end }
    IN  IF hits # {}
        THEN speaker_segments[CHOOSE k \in hits : \A j \in hits : k <= j].speaker
        ELSE IF speaker_segments # <<>>
        THEN speaker_segments[1].speaker
        ELSE "SPEAKER_00"

\* A lookup that falls back to the turn whose boundary is nearest to the
\* midpoint.
FindSpeakerNearest(chunk_start, chunk_end, speaker_segments) ==
    LET mid2 == chunk_start + chunk_end
        all == 1..Len(speaker_segments)
        hits == { k \in all :
                    /\ 2 * speaker_segments[k].start <= mid2
                    /\ mid2 <= 2 * speaker_segments[k].end }
        gap(k) == IF mid2 < 2 * speaker_segments[k].start
                  THEN 2 * speaker_segments[k].start - mid2
                  ELSE mid2 - 2 * speaker_segments[k].end
        nearest == { k \in all : \A j \in all : gap(k) <= gap(j) }
    IN  IF hits # {}
        THEN speaker_segments[CHOOSE k \in hits : \A j \in hits : k <= j].speaker
        ELSE IF speaker_segments # <<>>
        THEN speaker_segments[CHOOSE k \in nearest : \A j \in nearest : k <= j].speaker
        ELSE "SPEAKER_00"

\* A lookup that, given no turns, names a speaker after the span.
FindSpeakerPerSpan(chunk_start, chunk_end, speaker_segments) ==
    LET mid2 == chunk_start + chunk_end
        hits == { k \in 1..Len(speaker_segments) :
                    /\ 2 * speaker_segments[k].start <= mid2
                    /\ mid2 <= 2 * speaker_segments[k].end }
    IN  IF hits # {}
        THEN speaker_segments[CHOOSE k \in hits : \A j \in hits : k <= j].speaker
        ELSE IF speaker_segments # <<>>
        THEN speaker_segments[1].speaker
        ELSE IF chunk_start = 0 THEN "SPEAKER_00" ELSE "SPEAKER_01"

\* A lookup that remembers: a span that no turn contains goes to the speaker
\* the previous call returned.
FindSpeakerSticky(chunk_start, chunk_end, speaker_segments) ==
    LET mid2 == chunk_start + chunk_end
        hits == { k \in 1..Len(speaker_segments) :
                    /\ 2 * speaker_segments[k].start <= mid2
                    /\ mid2 <= 2 * speaker_segments[k].end }
    IN  IF hits # {}
        THEN speaker_segments[CHOOSE k \in hits : \A j \in hits : k <= j].speaker
        ELSE IF fSpeaker # "none"
        THEN fSpeaker
        ELSE IF speaker_segments # <<>>
        THEN speaker_segments[1].speaker
        ELSE "SPEAKER_00"

\* stt_engine.py lines 326-338.  chunk_mid is (chunk_start + chunk_end) / 2;
\* both sides of its comparisons are doubled here, so that no half is lost.
FindSpeaker(chunk_start, chunk_end, speaker_segments) ==
    LET mid2 == chunk_start + chunk_end
        hits == { k \in 1..Len(speaker_segments) :
                    /\ 2 * speaker_segments[k].start <= mid2
                    /\ mid2 <= 2 * speaker_segments[k].end }
    IN  IF hits # {}
        THEN speaker_segments[CHOOSE k \in hits : \A j \in hits : k <= j].speaker
        ELSE IF speaker_segments # <<>>
        THEN speaker_segments[1].speaker
        ELSE "SPEAKER_00"

\* stt_engine.py lines 278-294: the loop over the chunks.
RECURSIVE ResultSegments(_, _)
ResultSegments(cs, speaker_segments) ==
    IF cs = <<>> THEN <<>>
    ELSE LET chunk == Head(cs)
             text == Strip(chunk.text)
             rest == ResultSegments(Tail(cs), speaker_segments)
         IN  IF text = <<>> THEN rest
             ELSE << [speaker |-> FindSpeaker(ChunkStart(chunk), ChunkEnd(chunk),
                                              speaker_segments),
                      text |-> text,
                      start |-> Round2(ChunkStart(chunk)),
                      end |-> Round2(ChunkEnd(chunk))] >> \o rest

\* A count of the speakers the diarization found.
NumSpeakersOfTurns(result_segments) ==
    Cardinality({ lSegs[k].speaker : k \in 1..Len(lSegs) })

\* stt_engine.py line 302.
NumSpeakers(result_segments) ==
    Cardinality({ result_segments[k].speaker : k \in 1..Len(result_segments) })

\* A handler that keeps what was collected before the exception.
KeepCollected(collected) == collected

\* stt_engine.py lines 216-226: whatever was collected before the exception
\* is replaced by the fallback list.
SegmentsAfterFailure(collected) == DefaultSegments

-----------------------------------------------------------------------------
(* One request to a local engine *)

lClip == <<lEngine, lLoad, lDur, lRms, lReadable, lSaveResult>>
lDiar == <<lDiarCalls, lDiarized, lTurns, lSegs>>

\* The engine after its constructor: HFWhisperSTT, or MedicalSTT without
\* diarization, with a diarization model whose loading raised (stt_engine.py
\* lines 59-62), with the model loaded, or with Pipeline.from_pretrained
\* having returned None, which leaves enable_diarization set.
Constructed ==
    { <<"hf", "off">>, <<"simple", "off">>, <<"simple", "failed">>,
      <<"diar", "loaded">>, <<"diar", "none">> }

\* _get_audio_duration, stt_engine.py lines 340-352: the length of a file
\* that neither soundfile nor librosa can read is reported as 0.0.
AudioDuration(readable, durations) == IF readable THEN durations ELSE {0}

InitLocalWith(durations, energies, readables, saves) ==
    /\ \E c \in Constructed : lEngine = c[1] /\ lLoad = c[2]
    /\ lPc = "start"
    /\ lReadable \in readables
    /\ lSaveResult \in saves
    /\ lSaved = FALSE
    /\ lDur \in AudioDuration(lReadable, durations)
    /\ lRms \in energies
    /\ lCalls = 0
    /\ lDiarCalls = 0
    /\ lFirstErr = "none"
    /\ lLog = {}
    /\ lDiarized = "none"
    /\ lTurns = <<>>
    /\ lSegs = <<>>
    /\ lChunks = <<>>
    /\ lRet = NoLocalRet

\* A readable clip, transcribed with the default save_result=True.
InitLocal == InitLocalWith(LocalDurations, LocalRms, {TRUE}, {TRUE})

\* hf_engine.py line 65 and stt_engine.py line 104: librosa.load raises on a
\* file it cannot read, before any check.
LoadRaise ==
    /\ lEngine \in {"hf", "simple"}
    /\ lPc = "start"
    /\ ~lReadable
    /\ lPc' = "failed"
    /\ lRet' = LocalError("load")
    /\ UNCHANGED <<openaiVars, findVars, serviceVars, lClip, lDiar, lCalls, lFirstErr, lLog,
                   lChunks, lSaved>>

\* hf_engine.py lines 64-94: load, then the two checks.
HfGate ==
    /\ lEngine = "hf"
    /\ lPc = "start"
    /\ lReadable
    /\ LET verdict == QualityVerdict(lDur, lRms, MIN_AUDIO_LENGTH)
       IN  /\ lLog' = lLog \cup GateLog(verdict)
           /\ IF verdict = "proceed"
              THEN /\ lPc' = "transcribe"
                   /\ lRet' = lRet
              ELSE /\ lPc' = "done"
                   /\ lRet' = GateReturn(HfGateKeys, Round2(lDur))
    /\ UNCHANGED <<openaiVars, findVars, serviceVars, lClip, lSaved, lDiar, lCalls, lFirstErr, lChunks>>

\* stt_engine.py lines 100-134: duration, load, then the two checks.
SimpleGate ==
    /\ lEngine = "simple"
    /\ lPc = "start"
    /\ lReadable
    /\ LET verdict == QualityVerdict(lDur, lRms, MIN_AUDIO_DURATION)
       IN  /\ lLog' = lLog \cup GateLog(verdict)
           /\ IF verdict = "proceed"
              THEN /\ lPc' = "transcribe"
                   /\ lRet' = lRet
              ELSE /\ lPc' = "done"
                   /\ lRet' = GateReturn(SimpleGateKeys, Round2(lDur))
    /\ UNCHANGED <<openaiVars, findVars, serviceVars, lClip, lSaved, lDiar, lCalls, lFirstErr, lChunks>>

\* stt_engine.py lines 198-215: the duration is measured, the diarization
\* pipeline is called and every turn it yields is collected.
DiarizeOk ==
    /\ lEngine = "diar"
    /\ lLoad = "loaded"
    /\ lPc = "start"
    /\ lDiarCalls' = lDiarCalls + 1
    /\ lDiarized' = "ok"
    /\ \E turns \in TurnLists(lDur) :
          /\ lTurns' = turns
          /\ lSegs' = turns
    /\ lPc' = "transcribe"
    /\ UNCHANGED <<openaiVars, findVars, serviceVars, lClip, lSaved, lCalls, lFirstErr, lLog, lChunks, lRet>>

\* stt_engine.py lines 207-226: the pipeline, or the iteration over its
\* tracks, raises after some turns (maybe none, not all) were collected.
DiarizeRaise ==
    /\ lEngine = "diar"
    /\ lLoad = "loaded"
    /\ lPc = "start"
    /\ lDiarCalls' = lDiarCalls + 1
    /\ lDiarized' = "raised"
    /\ \E turns \in { l \in TurnLists(lDur) : Len(l) < MaxTurns } :
          /\ lTurns' = turns
          /\ lSegs' = SegmentsAfterFailure(turns)
    /\ lPc' = "transcribe"
    /\ UNCHANGED <<openaiVars, findVars, serviceVars, lClip, lSaved, lCalls, lFirstErr, lLog, lChunks, lRet>>

\* stt_engine.py lines 205 and 227-232: there is no pipeline to call.
NoPipeline ==
    /\ lEngine = "diar"
    /\ lLoad = "none"
    /\ lPc = "start"
    /\ lSegs' = DefaultSegments
    /\ lPc' = "transcribe"
    /\ UNCHANGED <<openaiVars, findVars, serviceVars, lClip, lSaved, lCalls, lFirstErr, lLog, lChunks,
                   lRet, lDiarCalls, lDiarized, lTurns>>

\* hf_engine.py lines 115-138, stt_engine.py lines 155-193 and 254-324: the
\* transcriber is called and returns, and the result is put together.
TranscriberOk ==
    /\ lPc \in {"transcribe", "retry"}
    /\ lPc = "retry" => lReadable
    /\ lCalls' = lCalls + 1
    /\ lSaved' = (lEngine # "hf" /\ lSaveResult)
    /\ IF lEngine = "diar"
       THEN \E tr \in Transcriptions(lDur) :
               LET cs == TranscriptionChunks(tr)
                   result_segments == ResultSegments(cs, lSegs)
               IN  /\ lChunks' = cs
                   /\ lRet' = [kind |-> "ok", text |-> tr.text, err |-> "",
                               keys |-> DiarKeys, duration |-> Round2(lDur),
                               segments |-> result_segments,
                               num_speakers |-> NumSpeakers(result_segments)]
       ELSE \E t \in Texts :
               /\ lChunks' = lChunks
               /\ lRet' = [kind |-> "ok", text |-> t, err |-> "",
                           keys |-> IF lEngine = "hf" THEN HfKeys ELSE SimpleKeys,
                           duration |-> Round2(lDur),
                           segments |-> <<>>, num_speakers |-> 0]
    /\ lPc' = "done"
    /\ UNCHANGED <<openaiVars, findVars, serviceVars, lClip, lDiar, lFirstErr, lLog>>

\* The first call raises: hf_engine.py has no handler; stt_engine.py lines
\* 156-165 and 255-264 load the audio again when the message is retryable.
TranscriberRaise ==
    /\ lPc = "transcribe"
    /\ lCalls' = lCalls + 1
    /\ \E msg \in TranscriberErrors :
          /\ lFirstErr' = msg
          /\ IF lEngine # "hf" /\ Retryable(msg)
             THEN /\ lPc' = "retry"
                  /\ lRet' = lRet
             ELSE /\ lPc' = "failed"
                  /\ lRet' = LocalError(msg)
    /\ UNCHANGED <<openaiVars, findVars, serviceVars, lClip, lSaved, lDiar, lLog, lChunks>>

\* stt_engine.py lines 159-163 and 258-262: librosa.load raises on a file
\* it cannot read, or the second call raises, and nothing catches it.
RetryRaise ==
    /\ lPc = "retry"
    /\ IF lReadable
       THEN /\ lCalls' = lCalls + 1
            /\ \E msg \in TranscriberErrors : lRet' = LocalError(msg)
       ELSE /\ lCalls' = lCalls
            /\ lRet' = LocalError("load")
    /\ lPc' = "failed"
    /\ UNCHANGED <<openaiVars, findVars, serviceVars, lClip, lSaved, lDiar, lFirstErr, lLog, lChunks>>

-----------------------------------------------------------------------------
(* The /stt/process endpoint and its background task (api/router.py).      *)

\* The identifiers and the upload names a request can carry; "none" stands
\* for an upload without a file name.
SttIds == {"1_1000", "2_1000"}
Filenames == {"none", "visit.wav", "visit"}

\* What stt_engine.transcribe can return as the text of its result.
TaskTexts == { <<>>, <<" ">>, <<"a">>, <<" ", "a", " ">> }

\* How one client.post can end: an answer with status 200, an answer with
\* another status, no answer within the 30 s timeout (the request was sent),
\* or no connection at all.
PostOutcomes == {"200", "500", "timeout", "connect_error"}

\* httpx raises for a timeout and for a failed connection, not for a status.
PostRaises(o) == o \in {"timeout", "connect_error"}

\* line 134: Path(file.filename).suffix if file.filename else ".mp3".
Suffix(filename) ==
    CASE filename = "none" -> ".mp3"
      [] filename = "visit.wav" -> ".wav"
      [] OTHER -> ""

\* Mutant: the text counts as present when it is not empty.
TextPresent(text) == text # <<>>

\* line 43: transcript_text.strip() is truthy.
NonBlank(text) == Strip(text) # <<>>

NoTask ==
    [pc |-> "idle", stt_id |-> "", suffix |-> "", temp |-> "none",
     stt |-> "none", text |-> <<>>, summary |-> "none", posts |-> <<>>,
     err |-> "none"]

\* A request has arrived at process_stt.
InitTask ==
    \E id \in SttIds, filename \in Filenames :
        task = [NoTask EXCEPT !.pc = "received", !.stt_id = id,
                              !.suffix = Suffix(filename)]

\* The notification posted to BACKEND_URL/stt/{stt_id}/result.
Notification(status, outcome) ==
    [stt_id |-> task.stt_id, status |-> status, outcome |-> outcome]

\* line 135: NamedTemporaryFile(delete=False) creates the file.
CreateTemp ==
    /\ task.pc = "received"
    /\ task' = [task EXCEPT !.pc = "created", !.temp = "exists"]
    /\ UNCHANGED <<openaiVars, localVars, findVars, db, cfg>>

\* lines 136-147: the upload is read and written, the file is closed, the
\* task is queued and the response is returned.
ReadOk ==
    /\ task.pc = "created"
    /\ task' = [task EXCEPT !.pc = "queued"]
    /\ UNCHANGED <<openaiVars, localVars, findVars, db, cfg>>

\* lines 136-137 and 149-151: reading or writing raises; the with block
\* closes the file, which delete=False keeps, and the handler answers 500.
ReadRaise ==
    /\ task.pc = "created"
    /\ task' = [task EXCEPT !.pc = "rejected", !.err = "upload"]
    /\ UNCHANGED <<openaiVars, localVars, findVars, db, cfg>>

\* lines 37-40: transcription returns a result with some text.
Transcribe ==
    /\ task.pc = "queued"
    /\ \E t \in TaskTexts :
          task' = [task EXCEPT !.pc = "transcribed", !.stt = "returned",
                               !.text = t]
    /\ UNCHANGED <<openaiVars, localVars, findVars, db, cfg>>

\* line 37 and line 83: transcription raises.
TranscribeRaise ==
    /\ task.pc = "queued"
    /\ task' = [task EXCEPT !.pc = "except", !.stt = "raised",
                            !.err = "transcribe"]
    /\ UNCHANGED <<openaiVars, localVars, findVars, db, cfg>>

\* lines 43-45: the text is not blank and generate_summary returns.
Summarise ==
    /\ task.pc = "transcribed"
    /\ NonBlank(task.text)
    /\ task' = [task EXCEPT !.pc = "summarised", !.summary = "returned"]
    /\ UNCHANGED <<openaiVars, localVars, findVars, db, cfg>>

\* line 45 and line 83: generate_summary raises.
SummariseRaise ==
    /\ task.pc = "transcribed"
    /\ NonBlank(task.text)
    /\ task' = [task EXCEPT !.pc = "except", !.summary = "raised",
                            !.err = "summary"]
    /\ UNCHANGED <<openaiVars, localVars, findVars, db, cfg>>

\* lines 48-66: the result is posted with status "done"; an answer, whatever
\* its status, is printed, an exception of the post goes to line 83.
PostDone ==
    /\ task.pc = "summarised"
    /\ \E o \in PostOutcomes :
          task' = [task EXCEPT
                      !.posts = Append(@, Notification("done", o)),
                      !.pc = IF PostRaises(o) THEN "except" ELSE "finally",
                      !.err = IF PostRaises(o) THEN "post" ELSE @]
    /\ UNCHANGED <<openaiVars, localVars, findVars, db, cfg>>

\* lines 67-81: the text is blank and status "error" is posted; an exception
\* of the post goes to line 83.
PostBlank ==
    /\ task.pc = "transcribed"
    /\ ~NonBlank(task.text)
    /\ \E o \in PostOutcomes :
          task' = [task EXCEPT
                      !.posts = Append(@, Notification("error", o)),
                      !.pc = IF PostRaises(o) THEN "except" ELSE "finally",
                      !.err = IF PostRaises(o) THEN "post" ELSE @]
    /\ UNCHANGED <<openaiVars, localVars, findVars, db, cfg>>

\* lines 83-100: the handler posts status "error"; whatever that post
\* raises is dropped.
PostError ==
    /\ task.pc = "except"
    /\ \E o \in PostOutcomes :
          task' = [task EXCEPT
                      !.posts = Append(@, Notification("error", o)),
                      !.pc = "finally"]
    /\ UNCHANGED <<openaiVars, localVars, findVars, db, cfg>>

\* lines 102-109: the file is removed; an exception of os.remove is printed.
RemoveTemp ==
    /\ task.pc = "finally"
    /\ \E removed \in BOOLEAN :
          task' = [task EXCEPT
                      !.pc = "ended",
                      !.temp = IF removed THEN "removed" ELSE @]
    /\ UNCHANGED <<openaiVars, localVars, findVars, db, cfg>>

RouterNext ==
    \/ CreateTemp
    \/ ReadOk
    \/ ReadRaise
    \/ Transcribe
    \/ TranscribeRaise
    \/ Summarise
    \/ SummariseRaise
    \/ PostDone
    \/ PostBlank
    \/ PostError
    \/ RemoveTemp
-----------------------------------------------------------------------------
(* The stt_job table and its operations (core/models.py, core/crud.py).    *)

MaxJobs == 2
Users == {1, 2}
Clock == {1000, 1001}

\* The columns of STTJob, models.py lines 25-39.
JobFields == {"stt_id", "user_id", "status", "s3_audio_url",
              "s3_transcript_url", "symptoms", "diagnosis", "notes", "date"}

\* crud.py lines 30 and 88: f"{user_id}_{int(time.time() * 1000)}".
SttId(user_id, ms) == ToString(user_id) \o "_" \o ToString(ms)

\* STTJob(stt_id=..., user_id=..., status=...): the other columns are NULL.
NewJob(stt_id, user_id, status) ==
    [f \in JobFields |->
        CASE f = "stt_id" -> stt_id
          [] f = "user_id" -> ToString(user_id)
          [] f = "status" -> status
          [] OTHER -> "NULL"]

\* The dictionaries update_stt_result is called with.
ResultDicts ==
    { [status |-> "error", notes |-> "n", job_id |-> "x"],
      [status |-> "done", symptoms |-> "s", diagnosis |-> "d",
       notes |-> "n", date |-> "2025-01-01"],
      [stt_id |-> "1_1001"],
      [stt_id |-> "9_9", status |-> "done"] }

\* The identifiers the callers ask for: stored ones and one never stored.
AskedIds == { SttId(u, ms) : u \in Users, ms \in Clock } \cup {"0_0"}

NoCall == [op |-> "none", stt_id |-> "", keys |-> {}, ret |-> "none"]

CrudCall(op, stt_id, keys, returned) ==
    [op |-> op, stt_id |-> stt_id, keys |-> keys, ret |-> returned]

\* An empty table.
InitDb == db = [jobs |-> {}, now |-> 1000, call |-> NoCall]

\* db.query(STTJob).filter(STTJob.stt_id == stt_id), lines 48 and 111.
Matching(stt_id) == { j \in db.jobs : j.stt_id = stt_id }

\* db.add and db.commit, lines 37-38 and 96-97: stt_id is the primary key
\* (models.py line 25), so the INSERT of a stored stt_id fails.
Insert(op, item) ==
    IF Matching(item.stt_id) # {}
    THEN db' = [db EXCEPT !.call = CrudCall(op, item.stt_id, {},
                                            "IntegrityError")]
    ELSE db' = [db EXCEPT !.jobs = @ \cup {item},
                          !.call = CrudCall(op, item.stt_id, {}, "job")]

\* Time passes between two calls.
Tick ==
    /\ db.now + 1 \in Clock
    /\ db' = [db EXCEPT !.now = @ + 1]
    /\ UNCHANGED <<openaiVars, localVars, findVars, task, cfg>>

\* crud.py lines 25-40.
create_stt_job ==
    /\ Cardinality(db.jobs) < MaxJobs
    /\ \E user_id \in Users :
          Insert("create_stt_job",
                 NewJob(SttId(user_id, db.now), user_id, "pending"))
    /\ UNCHANGED <<openaiVars, localVars, findVars, task, cfg>>

\* crud.py lines 80-101.
save_transcript ==
    /\ Cardinality(db.jobs) < MaxJobs
    /\ Insert("save_transcript", NewJob(SttId(1, db.now), 1, "completed"))
    /\ UNCHANGED <<openaiVars, localVars, findVars, task, cfg>>

\* lines 52-54: every key of the result that is an attribute of the job is
\* set.
SetAttrs(job, result) ==
    [f \in JobFields |-> IF f \in DOMAIN result THEN result[f] ELSE job[f]]

\* crud.py lines 43-58; the UPDATE of a primary key to a stored one fails.
update_stt_result ==
    /\ \E stt_id \in AskedIds, result \in ResultDicts :
          IF Matching(stt_id) = {}
          THEN db' = [db EXCEPT !.call =
                         CrudCall("update_stt_result", stt_id, DOMAIN result,
                                  "None")]
          ELSE LET job == CHOOSE j \in Matching(stt_id) : TRUE
                   new == SetAttrs(job, result)
               IN  IF new.stt_id # stt_id /\ Matching(new.stt_id) # {}
                   THEN db' = [db EXCEPT !.call =
                                  CrudCall("update_stt_result", stt_id,
                                           DOMAIN result, "IntegrityError")]
                   ELSE db' = [db EXCEPT
                                  !.jobs = (@ \ {job}) \cup {new},
                                  !.call = CrudCall("update_stt_result",
                                                    stt_id, DOMAIN result,
                                                    "job")]
    /\ UNCHANGED <<openaiVars, localVars, findVars, task, cfg>>

\* crud.py lines 104-124.
save_summary ==
    /\ \E stt_id \in AskedIds :
          IF Matching(stt_id) = {}
          THEN db' = [db EXCEPT !.call =
                         CrudCall("save_summary", stt_id, {}, "None")]
          ELSE LET job == CHOOSE j \in Matching(stt_id) : TRUE
                   new == [job EXCEPT !["symptoms"] = "s2",
                                      !["diagnosis"] = "d2",
                                      !["notes"] = "n2",
                                      !["date"] = "2025-01-02",
                                      !["status"] = "done"]
               IN  db' = [db EXCEPT
                             !.jobs = (@ \ {job}) \cup {new},
                             !.call = CrudCall("save_summary", stt_id, {},
                                               "1")]
    /\ UNCHANGED <<openaiVars, localVars, findVars, task, cfg>>

CrudNext ==
    \/ Tick
    \/ create_stt_job
    \/ save_transcript
    \/ update_stt_result
    \/ save_summary
-----------------------------------------------------------------------------
(* STTConfig.get_model and the engines built from a model type             *)
(* (config.py, core/config.py, stt_engine.py, core/engine/hf_engine.py).   *)

\* Python's None as an argument, and an unset STT_MODEL variable.
None == "<None>"
Unset == "<unset>"

\* The names get_model is asked for and the values of STT_MODEL.
ModelNames == {"fast", "balanced", "accurate", "whisper-1", "large", "FAST",
               "", None}
EnvModels == {Unset, "accurate", "tiny"}

\* config.py lines 10-14 and core/config.py lines 11-15.
MODELS ==
    [fast |-> "openai/whisper-small",
     balanced |-> "openai/whisper-medium",
     accurate |-> "openai/whisper-large-v3"]
HF_MODELS == MODELS

\* core/config.py lines 18-22.
API_MODELS ==
    ("whisper-1" :> "whisper-1") @@
    ("gpt-4o-transcribe" :> "gpt-4o-transcribe") @@
    ("gpt-4o-mini-transcribe" :> "gpt-4o-mini-transcribe")

\* config.py line 17.
DEFAULT_MODEL == "fast"

ValueError == [kind |-> "ValueError", model |-> ""]
Model(name) == [kind |-> "ok", model |-> name]

\* Mutant: a name the table does not have gets the default model.
LookupOrDefault(table, name) ==
    IF name \in DOMAIN table THEN Model(table[name])
    ELSE Model(MODELS[DEFAULT_MODEL])

\* config.py lines 45-48, core/config.py lines 49-54: the table's entry, or
\* ValueError for a name that is not a key.
Lookup(table, name) ==
    IF name \in DOMAIN table THEN Model(table[name]) ELSE ValueError

\* os.getenv("STT_MODEL", cls.DEFAULT_MODEL), config.py line 43.
Getenv(env) == IF env = Unset THEN DEFAULT_MODEL ELSE env

\* config.py lines 33-48.
get_model(model_type, env) ==
    Lookup(MODELS, IF model_type = None THEN Getenv(env) ELSE model_type)

\* core/config.py lines 46-54.
core_get_model(model_name) ==
    IF model_name \in DOMAIN HF_MODELS THEN Lookup(HF_MODELS, model_name)
    ELSE Lookup(API_MODELS, model_name)

NoEngine == [class |-> "none", model_type |-> "", model_name |-> ""]
NoLookup == [op |-> "none", module |-> "", name |-> "", env |-> "",
             ret |-> [kind |-> "none", model |-> ""]]

\* get_model of the module, as its callers reach it.
GetModelOf(module, name, env) ==
    IF module = "config" THEN get_model(name, env) ELSE core_get_model(name)

InitCfg == cfg = [call |-> NoLookup, engine |-> NoEngine]

\* One call of STTConfig.get_model of either module.
GetModelCall ==
    /\ \E module \in {"config", "core.config"}, name \in ModelNames,
          env \in EnvModels :
          cfg' = [cfg EXCEPT !.call =
                     [op |-> "get_model", module |-> module, name |-> name,
                      env |-> env, ret |-> GetModelOf(module, name, env)]]
    /\ UNCHANGED <<openaiVars, localVars, findVars, task, db>>

\* stt_engine.py lines 33-34 (MedicalSTT, config) and hf_engine.py lines
\* 22-23 (HFWhisperSTT, core.config): the constructor stores its argument and
\* asks get_model for the model name; a ValueError leaves no engine.
BuildEngine ==
    /\ \E module \in {"config", "core.config"}, name \in ModelNames,
          env \in EnvModels :
          LET found == GetModelOf(module, name, env)
          IN  cfg' =
                 [call |-> [op |-> "build", module |-> module, name |-> name,
                            env |-> env, ret |-> found],
                  engine |->
                     IF found.kind = "ok"
                     THEN [class |-> IF module = "config" THEN "MedicalSTT"
                                     ELSE "HFWhisperSTT",
                           model_type |-> name,
                           model_name |-> found.model]
                     ELSE NoEngine]
    /\ UNCHANGED <<openaiVars, localVars, findVars, task, db>>

ConfigNext ==
    \/ GetModelCall
    \/ BuildEngine

-----------------------------------------------------------------------------
(* Idle services *)

TaskIdle == task = NoTask
DbIdle == db = [jobs |-> {}, now |-> 0, call |-> NoCall]
CfgIdle == cfg = [call |-> NoLookup, engine |-> NoEngine]
ServicesIdle == TaskIdle /\ DbIdle /\ CfgIdle

-----------------------------------------------------------------------------
(* Idle engines *)

\* The local engines are idle in the specifications of the OpenAI engine.
LocalIdle ==
    /\ lEngine = "none"
    /\ lPc = "idle"
    /\ lDur = 0
    /\ lRms = 0
    /\ lCalls = 0
    /\ lDiarCalls = 0
    /\ lFirstErr = "none"
    /\ lLoad = "off"
    /\ lLog = {}
    /\ lDiarized = "none"
    /\ lTurns = <<>>
    /\ lSegs = <<>>
    /\ lChunks = <<>>
    /\ lRet = NoLocalRet
    /\ lReadable = TRUE
    /\ lSaveResult = FALSE
    /\ lSaved = FALSE

\* The OpenAI engine is idle in the specification of the local engines.
OpenAIIdle ==
    /\ pc = "idle"
    /\ fileSize = 0
    /\ audioLen = 0
    /\ vocab = {}
    /\ inversion = FALSE
    /\ mode = "none"
    /\ chunks = <<>>
    /\ fut = EmptyMap
    /\ consumed = {}
    /\ results = EmptyMap
    /\ raised = -1
    /\ tmp = {}
    /\ attempts = EmptyMap
    /\ calls = EmptyMap
    /\ singleCalls = 0
    /\ ret = NoRet

-----------------------------------------------------------------------------
(* MedicalSTT._find_speaker called on its own, any number of times, with    *)
(* the same list of turns in whatever order the caller built it             *)

FindSpans == {<<0, 2500>>, <<0, 5000>>, <<2500, 5000>>, <<5000, 6000>>}
AnyTurnLists == SeqsUpTo(Turns(5 * MIN_AUDIO_DURATION), MaxTurns)
NoCalls == [span \in FindSpans |-> "none"]

FindIdle ==
    /\ fSegs = <<>>
    /\ fArgs = <<>>
    /\ fSpeaker = "none"
    /\ fFirst = NoCalls
    /\ fRepeat = FALSE

\* A MedicalSTT engine after its constructor, a clip, and a list of turns.
InitFind ==
    /\ OpenAIIdle
    /\ InitLocal
    /\ ServicesIdle
    /\ lEngine # "hf"
    /\ lDur = 5 * MIN_AUDIO_DURATION
    /\ lRms = SILENCE_RMS_THRESHOLD
    /\ fSegs \in AnyTurnLists
    /\ fArgs = <<>>
    /\ fSpeaker = "none"
    /\ fFirst = NoCalls
    /\ fRepeat = FALSE

\* stt_engine.py lines 326-338: one call; it reads its three arguments and
\* assigns nothing but its local chunk_mid.
FindCall(span) ==
    /\ fArgs' = span
    /\ fSpeaker' = FindSpeaker(span[1], span[2], fSegs)
    /\ fFirst' = IF fFirst[span] = "none"
                 THEN [fFirst EXCEPT ![span] = fSpeaker']
                 ELSE fFirst
    /\ fRepeat' = (fFirst[span] # "none")
    /\ UNCHANGED <<openaiVars, localVars, serviceVars, fSegs>>

FindNext == \E span \in FindSpans : FindCall(span)

-----------------------------------------------------------------------------
(* The specifications *)

Init ==
    /\ InitOpenAIWith(FileSizes, AudioLengths, Texts)
    /\ LocalIdle
    /\ FindIdle
    /\ ServicesIdle
Next == OpenAINext
Spec == Init /\ [][Next]_vars

\* Every backend call returns or raises, and every thread that can take a
\* step takes one.
FairSpec == Init /\ [][Next]_vars /\ WF_vars(Next)

\* The same engine on one clip long enough to keep the whole pool busy.
InitPool ==
    /\ InitOpenAIWith(PoolSizes, {PoolChunks * CHUNK_LENGTH_MS}, PoolTexts)
    /\ LocalIdle
    /\ FindIdle
    /\ ServicesIdle
SpecPool == InitPool /\ [][Next]_vars

\* One request to a local engine.
LocalNext ==
    \/ HfGate
    \/ SimpleGate
    \/ DiarizeOk
    \/ DiarizeRaise
    \/ NoPipeline
    \/ TranscriberOk
    \/ TranscriberRaise
    \/ RetryRaise
LocalInit == OpenAIIdle /\ InitLocal /\ FindIdle /\ ServicesIdle
SpecLocal == LocalInit /\ [][LocalNext]_vars

\* One request to a local engine on a file that soundfile and librosa can
\* read or cannot read, with and without save_result.
FileDurations == {0, 5000}
FileRms == {SILENCE_RMS_THRESHOLD}
FilesNext ==
    \/ LocalNext
    \/ LoadRaise
FilesInit ==
    /\ OpenAIIdle
    /\ InitLocalWith(FileDurations, FileRms, BOOLEAN, BOOLEAN)
    /\ FindIdle
    /\ ServicesIdle
SpecFiles == FilesInit /\ [][FilesNext]_vars

\* Calls of _find_speaker on one engine.
SpecFind == InitFind /\ [][FindNext]_vars

\* The engines are idle in the specifications of the services.
EnginesIdle == OpenAIIdle /\ LocalIdle /\ FindIdle

\* One request to /stt/process.
RouterInit == EnginesIdle /\ InitTask /\ DbIdle /\ CfgIdle
SpecRouter == RouterInit /\ [][RouterNext]_vars

\* Calls of the crud functions on one table.
CrudInit == EnginesIdle /\ TaskIdle /\ InitDb /\ CfgIdle
SpecCrud == CrudInit /\ [][CrudNext]_vars

\* Calls of get_model and constructions of engines.
ConfigInit == EnginesIdle /\ TaskIdle /\ DbIdle /\ InitCfg
SpecConfig == ConfigInit /\ [][ConfigNext]_vars

-----------------------------------------------------------------------------
(* Properties *)

Terminal == pc \in {"done", "failed"}
Failed == { i \in Indices : fut[i].st = "error" }

\* The texts the backend returned for chunks 0 .. n-1, in ascending index
\* order, one space between neighbours.
RECURSIVE TextsUpTo(_)
TextsUpTo(n) ==
    IF n = 0 THEN <<>>
    ELSE IF n = 1 THEN fut[0].text
    ELSE TextsUpTo(n - 1) \o <<" ">> \o fut[n - 1].text

\* C1: whatever the order in which the futures were yielded, the text that
\* chunked transcription returns is the chunk texts in ascending index order
\* with exactly one space between consecutive texts.
C1_TextInIndexOrder ==
    (pc = "done" /\ mode = "chunked") =>
        (ret.kind = "ok" /\ ret.text = TextsUpTo(N))

\* C1 witness: three chunks with different texts, yielded out of index order,
\* and the text returned.
C1_Witness ==
    /\ pc = "done"
    /\ mode = "chunked"
    /\ N = 3
    /\ inversion
    /\ fut[0].text # fut[1].text
    /\ ret.text = fut[0].text \o <<" ">> \o fut[1].text \o <<" ">> \o fut[2].text

\* C2 as stated: when chunked dispatch has ended, the backend was called
\* exactly once for every chunk index.
C2_BackendCalledOncePerChunk ==
    (mode = "chunked" /\ Terminal) => \A i \in Indices : calls[i] = 1

\* C2 amended: the worker of every chunk runs exactly once whatever happened
\* to its siblings, and the backend is called exactly once for every chunk
\* whose export succeeded, never for one whose own export failed, and never
\* twice.
C2_EveryChunkAttemptedOnce ==
    /\ \A i \in Indices : attempts[i] <= 1 /\ calls[i] <= 1
    /\ (mode = "chunked" /\ Terminal) =>
          \A i \in Indices :
              /\ attempts[i] = 1
              /\ calls[i] = (IF fut[i].err = "export_error" THEN 0 ELSE 1)

\* C2 witness: chunk 0 failed and was the only future the loop saw; its
\* siblings were attempted and called all the same.
C2_Witness ==
    /\ pc = "failed"
    /\ N = 3
    /\ consumed = {0}
    /\ fut[0].err = "api_error"
    /\ \A i \in {1, 2} : attempts[i] = 1 /\ calls[i] = 1 /\ fut[i].st = "ok"

\* C3 as stated: when exactly one chunk failed and dispatch has ended, the
\* result map holds the text of every other chunk.
C3_SiblingResultsKept ==
    (mode = "chunked" /\ Terminal /\ Cardinality(Failed) = 1) =>
        \A i \in Indices \ Failed :
            i \in DOMAIN results /\ results[i] = fut[i].text

\* The chunk indices the failure handed to the caller can be traced to: the
\* one future whose exception left the loop.
ReportedFailed == IF raised = -1 THEN {} ELSE {raised}

\* C4 as stated: a failure names exactly the chunks that failed, no transcript
\* is returned when a chunk failed, and a total failure is one failure.
C4_FailureNamesFailedChunks ==
    (mode = "chunked" /\ Terminal) =>
        /\ (Failed # {} => ret.kind = "error" /\ ReportedFailed = Failed)
        /\ (ret.kind = "ok" => Failed = {})

InFlight == { i \in Indices : i \in tmp \/ fut[i].st \in {"export", "call"} }

\* C6: at most 5 chunks are being processed at any time.
C6_AtMostFiveInFlight == Cardinality(InFlight) <= 5

\* C6 witness: five chunks in flight while a sixth waits in the queue.
C6_Witness ==
    /\ Cardinality(InFlight) = 5
    /\ \E i \in Indices : fut[i].st = "queued"

\* C7: the chunks of a clip over the soft threshold are windows
\* [i*L, min((i+1)*L, duration)) for i = 0..N-1: they start at 0, each starts
\* where the one before ends, the last ends at the duration, none is empty,
\* only the last may be shorter than L, and N = ceil(duration / L).
C7_ChunksPartitionClip ==
    mode = "chunked" =>
        /\ N * CHUNK_LENGTH_MS >= audioLen
        /\ (N - 1) * CHUNK_LENGTH_MS < audioLen
        /\ \A k \in 1 .. N :
              /\ chunks[k].start = (k - 1) * CHUNK_LENGTH_MS
              /\ chunks[k].end = Min(k * CHUNK_LENGTH_MS, audioLen)
              /\ chunks[k].start < chunks[k].end
        /\ (N > 0 => chunks[1].start = 0 /\ chunks[N].end = audioLen)
        /\ \A k \in 1 .. (N - 1) :
              /\ chunks[k].end = chunks[k + 1].start
              /\ chunks[k].end - chunks[k].start = CHUNK_LENGTH_MS

\* C7 witness: 1500 s in 600 s chunks is [0,600), [600,1200), [1200,1500).
C7_Witness ==
    /\ mode = "chunked"
    /\ audioLen = 1500000
    /\ chunks = << [start |-> 0, end |-> 600000],
                   [start |-> 600000, end |-> 1200000],
                   [start |-> 1200000, end |-> 1500000] >>

\* C8: a clip of at most 25MB is never split, no chunk worker runs for it,
\* and when the request has ended exactly one backend call was made.
C8_SmallClipOneCall ==
    fileSize <= 25 * 1024 * 1024 =>
        /\ mode # "chunked"
        /\ chunks = <<>>
        /\ DOMAIN attempts = {}
        /\ tmp = {}
        /\ singleCalls <= 1
        /\ Terminal => (mode = "single" /\ singleCalls = 1)

\* C8 witness: a clip of exactly 25MB answered by one call.
C8_Witness ==
    /\ fileSize = 25 * 1024 * 1024
    /\ pc = "done"
    /\ singleCalls = 1
    /\ ret.kind = "ok"

\* C9: over 100MB the request fails with the size error and nothing was
\* split, called or written; over 25MB and up to 100MB included the clip is
\* split and the size error never occurs.
C9_HardCeiling ==
    /\ (fileSize > 100 * 1024 * 1024 /\ pc # "received") =>
          /\ pc = "failed"
          /\ ret.kind = "error" /\ ret.err = "size_limit"
          /\ mode = "none"
          /\ chunks = <<>>
          /\ singleCalls = 0
          /\ DOMAIN attempts = {} /\ DOMAIN calls = {}
          /\ tmp = {}
    /\ (fileSize > 25 * 1024 * 1024 /\ fileSize <= 100 * 1024 * 1024
            /\ pc # "received") =>
          /\ mode = "chunked"
          /\ chunks = SplitChunks(audioLen)
          /\ ret.err # "size_limit"

\* C9 witness: one byte over the ceiling, rejected.
C9_Witness ==
    /\ fileSize = 100 * 1024 * 1024 + 1
    /\ pc = "failed"
    /\ ret.err = "size_limit"

\* C10 as stated: on every path of the local engines a clip that is too short
\* or too quiet never reaches the transcriber, and its request ends with an
\* empty transcript.
C10_GateBeforeBackend ==
    QualityVerdict(lDur, lRms, MIN_AUDIO_LENGTH) # "proceed" =>
        /\ lCalls = 0
        /\ lPc \in {"done", "failed"} =>
              (lPc = "done" /\ lRet.kind = "ok" /\ lRet.text = <<>>)


-----------------------------------------------------------------------------
(* The quality checks of the local engines *)

\* A quality check ended the request with its empty result.
GateReturned == lEngine \in {"hf", "simple"} /\ lPc = "done" /\ lCalls = 0

\* The keys of a returned dictionary that hold the text, the file, the
\* model, the times, the duration and the speaker count.
PlainKeys == {"text", "audio_file", "model", "processing_time", "timestamp",
              "audio_length", "audio_duration", "rtf", "num_speakers",
              "segments"}

\* The verdict follows the two thresholds, the duration first: "too short"
\* is printed exactly for a clip below 1.0 s, "too quiet" exactly for a clip
\* of at least 1.0 s with an RMS below 0.01, and the transcriber is reached
\* exactly in the remaining case.
VerdictByThresholds ==
    (lEngine \in {"hf", "simple"} /\ lPc # "start") =>
        /\ ("too_short" \in lLog) <=> (lDur < 1000)
        /\ ("too_quiet" \in lLog) <=> (lDur >= 1000 /\ lRms < 10)
        /\ GateReturned <=> (lDur < 1000 \/ lRms < 10)

\* C11: the quality check yields too_short exactly below 1.0 s, too_quiet
\* exactly from 1.0 s on with an RMS below 0.01, and proceeds otherwise, the
\* duration first; and what the caller receives from a check that ended the
\* request carries the reason and the measured RMS besides the duration.
C11_VerdictReachesCaller ==
    /\ VerdictByThresholds
    /\ GateReturned =>
          /\ lRet.keys \cap {"audio_length", "audio_duration"} # {}
          /\ lRet.keys \ PlainKeys # {}

-----------------------------------------------------------------------------
(* The alignment of spans and speaker turns *)

\* The turn contains the midpoint of the span, both ends included.
Contains(seg, span) ==
    /\ 2 * seg.start <= span[1] + span[2]
    /\ span[1] + span[2] <= 2 * seg.end

Called == fArgs # <<>>

\* The places in the list of the turns that contain the latest span's
\* midpoint.
Containing == { k \in 1..Len(fSegs) : Contains(fSegs[k], fArgs) }

\* C12 as stated: in whatever order the turns are supplied, the span gets
\* the speaker of the chronologically first turn whose closed interval
\* contains its midpoint.
C12_ChronologicallyFirstContaining ==
    (Called /\ Containing # {}) =>
        \E k \in Containing :
            /\ fSpeaker = fSegs[k].speaker
            /\ \A j \in Containing : fSegs[k].start <= fSegs[j].start

\* C12 amended: the span gets the speaker of the first turn, in the order
\* supplied, whose closed interval contains its midpoint; in a list in
\* chronological order that turn is the chronologically first one, so a
\* midpoint on the boundary of two adjacent turns goes to the earlier turn.
C12_FirstListedContaining ==
    (Called /\ Containing # {}) =>
        \E k \in Containing :
            /\ fSpeaker = fSegs[k].speaker
            /\ \A j \in Containing : k <= j
            /\ Chronological(fSegs) =>
                  \A j \in Containing : fSegs[k].start <= fSegs[j].start

\* C12 witness: the midpoint lies on the boundary of two adjacent turns of
\* different speakers, and the span went to the earlier turn.
C12_Witness ==
    /\ Called
    /\ Len(fSegs) = 2
    /\ Containing = {1, 2}
    /\ fSegs[1].end = fSegs[2].start
    /\ fSegs[1].speaker # fSegs[2].speaker
    /\ fSpeaker = fSegs[1].speaker

\* The diarizing transcribe returned its result.
Returned == lEngine = "diar" /\ lPc = "done"

\* The returned spans, by their place in the result.
Spans == 1..Len(lRet.segments)

SpanOf(k) == <<lRet.segments[k].start, lRet.segments[k].end>>

\* No turn of speaker_segments contains the midpoint of the k-th span.
Uncontained(k) == \A j \in 1..Len(lSegs) : ~Contains(lSegs[j], SpanOf(k))

\* The speakers of the turns that start first.
FirstTurnSpeakers ==
    { lSegs[j].speaker : j \in { i \in 1..Len(lSegs) :
                                  \A h \in 1..Len(lSegs) :
                                      lSegs[i].start <= lSegs[h].start } }

ReturnedSpeakers == { lRet.segments[k].speaker : k \in Spans }

\* The request had no speaker turns: the diarization ran and yielded none,
\* or the engine has no diarization pipeline.
NoTurns ==
    \/ lEngine = "diar" /\ lDiarized = "ok" /\ lTurns = <<>>
    \/ lEngine = "diar" /\ lLoad = "none"
    \/ lEngine = "simple" /\ lLoad \in {"off", "failed"}

\* C14: with no speaker turns, every returned span has the one implicit
\* speaker, so the result names at most one speaker.
C14_NoTurnsOneSpeaker ==
    (NoTurns /\ lPc = "done") =>
        /\ \A k \in Spans : lRet.segments[k].speaker = "SPEAKER_00"
        /\ Cardinality(ReturnedSpeakers) <= 1
        /\ lRet.num_speakers <= 1

\* C14 witness: the diarization yielded no turn and two spans were returned.
C14_Witness ==
    /\ Returned
    /\ lDiarized = "ok"
    /\ lTurns = <<>>
    /\ Len(lRet.segments) = 2
    /\ lRet.segments[1].start # lRet.segments[2].start
    /\ ReturnedSpeakers = {"SPEAKER_00"}
    /\ lRet.num_speakers = 1

-----------------------------------------------------------------------------
(* The spans the diarizing transcribe returns *)

\* The total time the spans cover.
RECURSIVE Covered(_)
Covered(segs) ==
    IF segs = <<>> THEN 0
    ELSE (Head(segs).end - Head(segs).start) + Covered(Tail(segs))

\* C16 as stated: every returned span lies inside the clip, and the spans
\* together cover no more than the clip's duration, also when the
\* transcriber left out a start or an end.
C16_SpansInsideClip ==
    Returned =>
        /\ \A k \in Spans :
              /\ 0 <= lRet.segments[k].start
              /\ lRet.segments[k].start <= lRet.segments[k].end
              /\ lRet.segments[k].end <= lDur
        /\ Covered(lRet.segments) <= lDur

\* The starts and ends are in order and not negative.
SpansWellFormed ==
    Returned =>
        \A k \in Spans :
            /\ 0 <= lRet.segments[k].start
            /\ lRet.segments[k].start <= lRet.segments[k].end

\* The text has nothing but blanks in it.
Blank(t) == \A i \in 1..Len(t) : t[i] = " "

\* The chunks of the transcriber that carry some text, by their place.
Spoken == { k \in 1..Len(lChunks) : ~Blank(lChunks[k].text) }

\* C17: every returned span names one speaker, the reported number of
\* speakers is the number of different speakers the returned spans name,
\* and a chunk with a blank text gives no span and adds to no count.
C17_SpeakerCountMatchesSpans ==
    Returned =>
        /\ \A k \in Spans : lRet.segments[k].speaker \in Speakers
        /\ \A k \in Spans : ~Blank(lRet.segments[k].text)
        /\ Len(lRet.segments) = Cardinality(Spoken)
        /\ lRet.num_speakers = Cardinality(ReturnedSpeakers)

\* C17 witness: two speakers took turns, one of two chunks was blank, and
\* the one returned span makes one speaker.
C17_Witness ==
    /\ Returned
    /\ Cardinality({ lSegs[k].speaker : k \in 1..Len(lSegs) }) = 2
    /\ Len(lChunks) = 2
    /\ Cardinality(Spoken) = 1
    /\ Len(lRet.segments) = 1
    /\ lRet.num_speakers = 1

-----------------------------------------------------------------------------
(* Failures of the diarization *)

\* C18: a diarization that fails does not fail the request.  When the model
\* could not be loaded the engine transcribes without diarization, and when
\* the diarization call raised, even after turns were collected, the
\* transcriber is called next with the one fallback turn in place of the
\* collected ones; the request then fails only if the transcriber raises,
\* and its result names no speaker but the fallback one.
C18_DiarizationFailureAbsorbed ==
    /\ lLoad = "failed" =>
          /\ lEngine = "simple"
          /\ lDiarCalls = 0
          /\ lPc = "failed" => (lCalls >= 1 /\ lRet.err \in TranscriberErrors)
          /\ lPc = "done" => (lRet.kind = "ok" /\ lRet.segments = <<>>)
    /\ lDiarized = "raised" =>
          /\ lPc \in {"transcribe", "retry", "done", "failed"}
          /\ lSegs = DefaultSegments
          /\ lPc = "failed" => (lCalls >= 1 /\ lRet.err \in TranscriberErrors)
          /\ lPc = "done" =>
                /\ lRet.kind = "ok"
                /\ lCalls >= 1
                /\ ReturnedSpeakers \subseteq {"SPEAKER_00"}
                /\ lRet.num_speakers <= 1

\* C18 witness: the diarization raised after it had yielded a turn of
\* SPEAKER_01 that contains the midpoint of a span, and the span was
\* returned with the fallback speaker.
C18_Witness ==
    /\ Returned
    /\ lDiarized = "raised"
    /\ \E k \in Spans : \E j \in 1..Len(lTurns) :
          /\ lTurns[j].speaker = "SPEAKER_01"
          /\ Contains(lTurns[j], SpanOf(k))
          /\ lRet.segments[k].speaker = "SPEAKER_00"

-----------------------------------------------------------------------------
(* The states of a request to the OpenAI engine *)

\* The backend calls started so far.
CallsStarted ==
    { i \in DOMAIN calls : calls[i] > 0 } \cup
    (IF singleCalls > 0 THEN {-1} ELSE {})

\* Chunks whose worker has not finished.
Unfinished == { i \in Indices : fut[i].st \in {"queued", "export", "call"} }

\* Under FairSpec every request comes to an end.
RequestEnds == <>Terminal

\* A request fails at the size check or once its dispatch has begun.
FailsFromSegmentationOrDispatch ==
    [][(pc' = "failed" /\ pc # "failed") =>
          \/ pc = "received" /\ ret'.err = "size_limit"
          \/ pc \in {"single_call", "shutdown"}]_vars

\* Once a request has ended, no worker is left that could call the backend.
NoCallAfterEnd == Terminal => Unfinished = {}

\* C19 as stated, its order of states: the quality of the clip is checked
\* before anything is cut or sent, so that a clip below the minimum duration
\* is short-circuited and no backend call is ever started for it; a request
\* that fails does so at the size check or in its dispatch; and no backend
\* call is left to start once the request has ended.
C19_QualityCheckedBeforeDispatch ==
    /\ audioLen < MIN_AUDIO_LENGTH => CallsStarted = {}
    /\ pc = "failed" => (ret.err = "size_limit" \/ mode \in {"single", "chunked"})
    /\ NoCallAfterEnd

-----------------------------------------------------------------------------
(* The assembly of the chunk texts *)

\* Indices for which results holds no text.
Missing == Indices \ DOMAIN results

\* C20: a text is returned by the chunked transcription only when results
\* holds a text for every index 0 .. N-1; whenever an index is missing at
\* the end, the request has failed and no transcript is returned.
C20_AssembledOnlyWhenComplete ==
    mode = "chunked" =>
        /\ ret.kind = "ok" => (pc = "done" /\ Missing = {})
        /\ pc = "done" => (ret.kind = "ok" /\ Missing = {})
        /\ (Terminal /\ Missing # {}) =>
              /\ pc = "failed"
              /\ ret.kind = "error"
              /\ ret.text = <<>>

\* C20 witness: two of three chunks have their text in results, the third
\* has none, and the request failed without a transcript.
C20_Witness ==
    /\ mode = "chunked"
    /\ N = 3
    /\ Cardinality(Missing) = 1
    /\ pc = "failed"
    /\ ret.kind = "error"
    /\ ret.text = <<>>

\* ---------------------------------------------------------------------------
\* The result map of chunked dispatch
\* ---------------------------------------------------------------------------

\* A worker thread is between its start and its return.
WorkerActive == \E i \in Indices : fut[i].st \in {"export", "call"}

\* One step writes the map: it adds exactly one key the map did not have and
\* keeps every key it had, and it is a step of the collecting loop (no worker's
\* future or temporary file moves in it).
WritesOneKey ==
    /\ \A k \in DOMAIN results :
          k \in DOMAIN results' /\ results'[k] = results[k]
    /\ Cardinality(DOMAIN results' \ DOMAIN results) = 1
    /\ pc = "as_completed"
    /\ fut' = fut
    /\ tmp' = tmp

\* C22: in every reachable state of chunked dispatch the result map holds only
\* keys in 0..N-1; every step that changes the map adds one new key and
\* rewrites none, so a key is written at most once; and the only writer is the
\* loop that collects the futures, so no two writers write the same key or
\* write the map in the same step.
C22_ResultMapWrittenOncePerKey ==
    /\ [](DOMAIN results \subseteq Indices)
    /\ [][results' # results => WritesOneKey]_vars

\* Two keys were written, the later chunk first, while a worker is still
\* running.
C22_Witness ==
    /\ pc = "as_completed"
    /\ Cardinality(DOMAIN results) = 2
    /\ inversion
    /\ WorkerActive

\* C27: for a fixed assignment of outcomes to the chunk indices the error
\* raised to the caller is the same whichever failed chunk the collecting
\* loop meets first: it is the error of every failed chunk.
C27_OutcomeIndependentOfCompletionOrder ==
    (mode = "chunked" /\ pc = "failed") =>
        \A j \in Failed : fut[j].err = ret.err

\* ---------------------------------------------------------------------------
\* Unreadable files and the transcriber's second call (MedicalSTT)
\* ---------------------------------------------------------------------------

\* C21: a file that cannot be read never ends in a result the caller takes
\* for a success (with whatever text, and with the zero duration measured for
\* it): its request ends as a failure.
C21_UnreadableFileFails == ~lReadable => lPc # "done"

\* The message names ffmpeg, torchcodec or libtorchcodec.
MentionsDecoder(msg) == msg \in {"ffmpeg", "torchcodec", "libtorchcodec"}

\* C30: in one MedicalSTT transcribe call the transcriber is invoked at most
\* twice, and twice only after a first error that mentions ffmpeg, torchcodec
\* or libtorchcodec; any other first error ends the call at once with that
\* error, every failed call hands its error to the caller, and a failed call
\* has saved no result.
C30_AtMostOneRetry ==
    lEngine \in {"simple", "diar"} =>
        /\ lCalls <= 2
        /\ lCalls = 2 => MentionsDecoder(lFirstErr)
        /\ lPc = "retry" => (lCalls = 1 /\ MentionsDecoder(lFirstErr))
        /\ (lFirstErr # "none" /\ ~MentionsDecoder(lFirstErr)) =>
              /\ lPc = "failed"
              /\ lCalls = 1
              /\ lRet.err = lFirstErr
        /\ lPc = "failed" => (lRet.kind = "error" /\ lRet.err # "" /\ ~lSaved)
        /\ lSaved => (lPc = "done" /\ lRet.kind = "ok" /\ lSaveResult)

\* Saving was asked for, the first call raised a torchcodec error, the second
\* call raised too: the call failed after two invocations.
C30_Witness ==
    /\ lEngine = "diar"
    /\ lSaveResult
    /\ lFirstErr = "torchcodec"
    /\ lCalls = 2
    /\ lPc = "failed"

\* ---------------------------------------------------------------------------
\* The background task of /stt/process
\* ---------------------------------------------------------------------------

\* The statuses of the notifications posted so far.
Posted == { task.posts[k].status : k \in 1..Len(task.posts) }

\* The task has left process_stt_task.
TaskEnded == task.pc = "ended"

\* C24: status "done" is posted only after transcription returned a text
\* that is not blank once stripped and generate_summary returned; a run
\* whose transcript was blank, or in which transcription or generate_summary
\* raised, has posted status "error" and has not posted "done" by its end.
C24_DoneOnlyAfterTextAndSummary ==
    /\ "done" \in Posted =>
          /\ task.stt = "returned"
          /\ Strip(task.text) # <<>>
          /\ task.summary = "returned"
    /\ (/\ TaskEnded
        /\ \/ (task.stt = "returned" /\ Strip(task.text) = <<>>)
           \/ task.stt = "raised"
           \/ task.summary = "raised") =>
          ("error" \in Posted /\ "done" \notin Posted)

\* The transcript was a single blank and the run ended with an "error"
\* report.
C24_Witness ==
    /\ TaskEnded
    /\ task.text = <<" ">>
    /\ task.stt = "returned"
    /\ "error" \in Posted

\* C25: one run of process_stt_task posts at most one notification for its
\* stt_id, also when the post itself raises or times out.
C25_AtMostOneNotification == Len(task.posts) <= 1

\* C26: once the handling of a request has ended (the endpoint answered 500,
\* or the background task returned) the temporary file it created is gone.
C26_TempFileDeleted ==
    task.pc \in {"rejected", "ended"} => task.temp # "exists"

\* ---------------------------------------------------------------------------
\* The stt_job table
\* ---------------------------------------------------------------------------

\* C28: the stored stt_ids are pairwise distinct, and no create_stt_job or
\* save_transcript call fails because its stt_id is already stored.
C28_NoIdCollision ==
    /\ \A a \in db.jobs : \A b \in db.jobs : a.stt_id = b.stt_id => a = b
    /\ ~(/\ db.call.op \in {"create_stt_job", "save_transcript"}
         /\ db.call.ret = "IntegrityError")

\* One step of update_stt_result or save_summary, seen from its two ends:
\* without a matching job it returns None and the table is the same; with
\* one, update_stt_result replaces that job by a job with the same stt_id
\* that differs from it only in fields the result names, and the other jobs
\* stay.
UpdateFrame ==
    LET c == db'.call
        hit == { j \in db.jobs : j.stt_id = c.stt_id }
    IN  (/\ db' # db
         /\ db'.now = db.now
         /\ c.op \in {"update_stt_result", "save_summary"}) =>
            IF hit = {}
            THEN c.ret = "None" /\ db'.jobs = db.jobs
            ELSE c.op = "update_stt_result" =>
                    \E old \in hit : \E new \in db'.jobs :
                        /\ db'.jobs \ {new} = db.jobs \ {old}
                        /\ new.stt_id = old.stt_id
                        /\ \A f \in JobFields :
                              new[f] # old[f] => f \in c.keys

\* C29: update_stt_result and save_summary with an stt_id no job has return
\* None and change no job; update_stt_result with a matching stt_id changes
\* only that job, only in fields the result names, and keeps its stt_id.
C29_UpdateChangesOnlyNamedFields == [][UpdateFrame]_vars

\* ---------------------------------------------------------------------------
\* STTConfig.get_model
\* ---------------------------------------------------------------------------

\* The keys of the model table of the module.
TableKeys(module) ==
    IF module = "config" THEN DOMAIN MODELS
    ELSE DOMAIN HF_MODELS \cup DOMAIN API_MODELS

\* C23: get_model gives "openai/whisper-small" for "fast",
\* "openai/whisper-medium" for "balanced" and "openai/whisper-large-v3" for
\* "accurate"; for every name that is not a key of the module's model table
\* it raises ValueError and gives no model; and an engine that was built
\* holds the model type it was built with.
C23_GetModelTable ==
    LET c == cfg.call
    IN  /\ c.name = "fast" => c.ret = Model("openai/whisper-small")
        /\ c.name = "balanced" => c.ret = Model("openai/whisper-medium")
        /\ c.name = "accurate" => c.ret = Model("openai/whisper-large-v3")
        /\ (c.op # "none" /\ c.name # None /\ c.name \notin TableKeys(c.module))
              => c.ret = [kind |-> "ValueError", model |-> ""]
        /\ c.op = "build" =>
              IF c.ret.kind = "ok"
              THEN /\ cfg.engine.model_type = c.name
                   /\ cfg.engine.model_name = c.ret.model
              ELSE cfg.engine.class = "none"

\* An engine was asked for with a name that is no key, and none was built.
C23_Witness ==
    /\ cfg.call.op = "build"
    /\ cfg.call.name = "large"
    /\ cfg.call.ret.kind = "ValueError"
    /\ cfg.engine.class = "none"

=========================================================================
